---- MODULE Spec2Model ----
(***************************************************************************)
(* ChronoPulse: session lifecycle, local cache and remote replica.         *)
(*                                                                         *)
(* The model follows App.tsx (the handlers of the App component), the      *)
(* storage service (loadSessions / saveSession / deleteSession /           *)
(* clearAllData), the edit modal (EditSessionModal.handleSave) and the SQL *)
(* schema of the remote table.  Time is counted in ticks of 30 seconds, so *)
(* that the minute resolution of the edit form is coarser than the clock.  *)
(* Every handler is one atomic step (React runs a handler to completion    *)
(* and re-renders before the next discrete event); every await of the      *)
(* storage service is a task in flight that resumes in a later step.       *)
(***************************************************************************)
EXTENDS Integers, Sequences, FiniteSets, Bags, TLC

VARIABLES
    supabase,         \* TRUE iff the Supabase client exists (credentials present)
    authUser,         \* the owner the backend has authenticated, or NoUser
    user,             \* App state `user`
    sessions,         \* App state `sessions`
    deletedSessions,  \* App state `deletedSessions` (undo stack)
    editingSession,   \* App state `editingSession`: <<>> or <<session>>
    selectedDate,     \* App state `selectedDate`, as a day number
    localStorage,     \* the value stored under STORAGE_KEY
    remote,           \* rows of table public.sessions
    inflight,         \* bag of awaited calls that have not resumed yet
    clock,            \* last value read from the wall clock
    nextId,           \* number of ids handed out by uuidv4 so far, plus one
    ops,              \* number of operations issued so far
    failedSaves,      \* rows whose upsert ended in "Supabase save error"
    calls,            \* the calls of the storage service made directly, in order
    range,            \* StatisticsModal state `range`
    categories,       \* App state `categories`
    download,         \* the lines of the file the browser saved last, <<>> when none
    last              \* the handler that ran last

vars == <<supabase, authUser, user, sessions, deletedSessions, editingSession,
          selectedDate, localStorage, remote, inflight, clock, nextId, ops, failedSaves,
          calls, range, categories, download, last>>

(***************************************************************************)
(* Bounds of the model.                                                    *)
(***************************************************************************)
MaxOps == 4          \* operations the user issues while the backend is silent
MaxClock == 1        \* ticks the wall clock can advance
MaxSyncOps == 2      \* operations the user issues while the backend answers
MaxInflight == 2     \* awaited calls that can be pending at once
MaxCalls == 3        \* calls of the storage service
MaxLocalOps == 3     \* operations the user issues while the backend cannot be reached

(***************************************************************************)
(* Values.                                                                 *)
(***************************************************************************)
Null == -1                       \* null / absent timestamp
NoUser == "undefined"            \* absent user id
Owner == "u1"                    \* the id of the signed-in owner
TicksPerMinute == 2
TicksPerHour == 60 * TicksPerMinute
TicksPerDay == 24 * TicksPerHour
Yesterday == 0
Today == 1
Dates == {Yesterday, Today}
ClockStart == Today * TicksPerDay + 9 * TicksPerHour + 1   \* 09:00:30 today
Categories == {"Work"}
\* the values a user types into the datetime-local fields (whole minutes)
EditTimes == {ClockStart - 1, ClockStart + 1}

startOfDay(d) == d * TicksPerDay
addHours(t, h) == t + h * TicksPerHour
addMinutes(t, m) == t + m * TicksPerMinute
isBefore(a, b) == a < b

\* new Date(): the wall clock does not run backwards; it may or may not
\* have advanced since it was last read
ClockReads == {t \in {clock, clock + 1} : t <= ClockStart + MaxClock}

(***************************************************************************)
(* Sequences of sessions.                                                  *)
(***************************************************************************)
Range(s) == {s[i] : i \in 1..Len(s)}
map(s, f(_)) == [i \in 1..Len(s) |-> f(s[i])]
filter(s, p(_)) == SelectSeq(s, p)
some(s, p(_)) == \E i \in 1..Len(s) : p(s[i])
\* Array.prototype.find: the first element that satisfies p, as <<x>>, or <<>>
find(s, p(_)) ==
    LET hits == {i \in 1..Len(s) : p(s[i])}
    IN  IF hits = {} THEN <<>> ELSE <<s[CHOOSE i \in hits : \A j \in hits : i <= j]>>

insertByStartDesc(sorted, x) ==
    LET k == Cardinality({i \in 1..Len(sorted) : sorted[i].start_time >= x.start_time})
    IN  SubSeq(sorted, 1, k) \o <<x>> \o SubSeq(sorted, k + 1, Len(sorted))

RECURSIVE sortByStartDesc(_)
\* Array.prototype.sort((a, b) => b.start_time - a.start_time): stable, newest start first
sortByStartDesc(s) ==
    IF s = <<>> THEN <<>>
    ELSE insertByStartDesc(sortByStartDesc(SubSeq(s, 1, Len(s) - 1)), s[Len(s)])

(***************************************************************************)
(* Storage service: the local cache.                                       *)
(***************************************************************************)
\* JSON.stringify(list) as the stored value
stringify(list) == [kind |-> "json", data |-> list]
\* localStorage.removeItem
removed == [kind |-> "null", data |-> <<>>]
\* a stored value JSON.parse throws on
garbage == [kind |-> "garbage", data |-> <<>>]

\* JSON.parse(localStorage.getItem(STORAGE_KEY) || '[]')
parseOrEmpty(ls) ==
    CASE ls.kind = "null" -> [threw |-> FALSE, value |-> <<>>]
      [] ls.kind = "json" -> [threw |-> FALSE, value |-> ls.data]
      [] OTHER -> [threw |-> TRUE, value |-> <<>>]

createSession(category, userId, id, now) ==
    [id |-> id, user_id |-> userId, category |-> category, start_time |-> now,
     end_time |-> Null, is_active |-> TRUE, synced |-> "false"]

\* saveSession storing the saved session alone
updatedSessionsOnSaveAlone(currentSessions, sessionToSave) == <<sessionToSave>>

\* saveSession prepending without the filter on id
updatedSessionsOnSaveUnfiltered(currentSessions, sessionToSave) ==
    <<sessionToSave>> \o currentSessions

\* [sessionToSave, ...currentSessions.filter(s => s.id !== session.id)]
updatedSessionsOnSave(currentSessions, sessionToSave) ==
    <<sessionToSave>> \o filter(currentSessions, LAMBDA s : s.id # sessionToSave.id)

\* saveSession from the local write on, once userId is known.  st is the
\* pair [ls, fl] of the stored value and the calls in flight.
saveSessionFromLocalWrite(st, session, userId) ==
    LET sessionToSave == IF userId # NoUser THEN [session EXCEPT !.user_id = userId] ELSE session
        current == parseOrEmpty(st.ls)
    IN  IF current.threw THEN st      \* JSON.parse throws: the promise rejects here
        ELSE [ls |-> stringify(updatedSessionsOnSave(current.value, sessionToSave)),
              fl |-> IF supabase /\ userId # NoUser
                     THEN st.fl (+) SetToBag({[kind |-> "upsert", row |-> sessionToSave]})
                     ELSE st.fl]

\* the synchronous part of saveSession(session): up to its first await
saveSession(st, session) ==
    IF supabase /\ session.user_id = NoUser
    THEN [st EXCEPT !.fl = @ (+) SetToBag({[kind |-> "getUser", session |-> session]})]
    ELSE saveSessionFromLocalWrite(st, session, session.user_id)

\* deleteSession issuing the remote delete only
deleteSessionRemoteOnly(st, sessionId) ==
    [st EXCEPT !.fl = IF supabase
                      THEN @ (+) SetToBag({[kind |-> "delete", id |-> sessionId]})
                      ELSE @]

\* the synchronous part of deleteSession(sessionId)
deleteSession(st, sessionId) ==
    LET current == parseOrEmpty(st.ls)
    IN  IF current.threw THEN st
        ELSE [ls |-> stringify(filter(current.value, LAMBDA s : s.id # sessionId)),
              fl |-> IF supabase
                     THEN st.fl (+) SetToBag({[kind |-> "delete", id |-> sessionId]})
                     ELSE st.fl]

store == [ls |-> localStorage, fl |-> inflight]

(***************************************************************************)
(* The remote table public.sessions with its row level security.           *)
(***************************************************************************)
\* policies "insert their own" / "update their own": auth.uid() = user_id
writeAllowed(row) == authUser # NoUser /\ row.user_id = authUser
\* policy "view their own": auth.uid() = user_id
selectAllowed(row) == authUser # NoUser /\ row.user_id = authUser
\* row level security is enabled and no policy is defined for delete
deleteAllowed(row) == FALSE

\* upsert keyed by the primary key id
upsertRow(rows, row) == {r \in rows : r.id # row.id} \cup {row}
deleteRows(rows, id) == {r \in rows : ~(r.id = id /\ deleteAllowed(r))}

isSortedByStartDesc(s) == \A i \in 1..Len(s) - 1 : s[i].start_time >= s[i + 1].start_time
\* select * order by start_time desc: rows with equal start_time come in any order
selectResults ==
    LET visible == {r \in remote : selectAllowed(r)}
        n == Cardinality(visible)
    IN  {s \in [1..n -> visible] : Range(s) = visible /\ isSortedByStartDesc(s)}

(***************************************************************************)
(* App: the initial state.                                                 *)
(***************************************************************************)
\* a category of the list: an item with its id, name and icon, or a bare string,
\* which has none of them
categoryItem(id, name, icon) == [kind |-> "item", id |-> id, name |-> name, icon |-> icon]
categoryString(text) == [kind |-> "string", text |-> text]
\* constants.CATEGORIES, the list loadCategories returns when nothing is stored
DEFAULT_CATEGORIES ==
    <<categoryString("Work"), categoryString("Exercise"), categoryString("Leisure"),
      categoryString("Study"), categoryString("Sleep")>>
\* loadCategories() right after clearAllData has removed CATEGORIES_KEY
loadCategories == DEFAULT_CATEGORIES

\* a session the owner tracked on an earlier day, kept by the table
PriorSession ==
    [id |-> 1, user_id |-> Owner, category |-> "Work",
     start_time |-> addHours(startOfDay(Yesterday), 12),
     end_time |-> addMinutes(addHours(startOfDay(Yesterday), 12), 30),
     is_active |-> FALSE, synced |-> "false"]

Init ==
    /\ supabase \in BOOLEAN
    /\ authUser = NoUser
    /\ user = NoUser
    /\ sessions = <<>>
    /\ deletedSessions = <<>>
    /\ editingSession = <<>>
    /\ selectedDate = Today
    /\ localStorage = removed
    /\ \/ remote = {} /\ nextId = 1
       \/ remote = {PriorSession} /\ nextId = 2
    /\ inflight = EmptyBag
    /\ clock = ClockStart
    /\ ops = 0
    /\ failedSaves = {}
    /\ calls = <<>>
    /\ range = "day"
    /\ download = <<>>
    /\ categories = DEFAULT_CATEGORIES
    /\ last = "Init"

(***************************************************************************)
(* Storage service: loadSessions.                                          *)
(***************************************************************************)
\* the fallback of loadSessions without its try / catch
loadLocalFallbackUncaught(ls) ==
    CASE ls.kind = "null" -> [raised |-> FALSE, value |-> <<>>]
      [] ls.kind = "json" -> [raised |-> FALSE, value |-> ls.data]
      [] OTHER -> [raised |-> TRUE, value |-> <<>>]

\* the fallback of loadSessions: try { stored ? JSON.parse(stored) : [] } catch { [] }
loadLocalFallback(ls) ==
    CASE ls.kind = "null" -> [raised |-> FALSE, value |-> <<>>]
      [] ls.kind = "json" -> [raised |-> FALSE, value |-> ls.data]
      [] OTHER -> [raised |-> FALSE, value |-> <<>>]

\* loadSessions once the select has answered; reply is [error, data]
loadSessionsAfterSelect(ls, reply) ==
    IF ~reply.error
    THEN [ls |-> stringify(reply.data), raised |-> FALSE, value |-> reply.data]
    ELSE LET r == loadLocalFallback(ls) IN [ls |-> ls, raised |-> r.raised, value |-> r.value]

\* loadSessions without a client: the fallback at once
loadSessionsNoClient(ls) ==
    LET r == loadLocalFallback(ls) IN [ls |-> ls, raised |-> r.raised, value |-> r.value]

selectSent == [kind |-> "select", phase |-> "sent", error |-> FALSE, data |-> <<>>]

(***************************************************************************)
(* App: handlers.                                                          *)
(***************************************************************************)
\* the render gates: the tracker is rendered only with a client and a user,
\* and the edit modal covers the tracker while it is open
uiEnabled == supabase /\ user # NoUser
trackerEnabled == uiEnabled /\ editingSession = <<>>

activeSession == find(sessions, LAMBDA s : s.is_active)

stopFields(s, now) == [s EXCEPT !.end_time = now, !.is_active = FALSE]

draftSession(category, id) ==
    LET draftStart == addHours(startOfDay(selectedDate), 12)
        draftEnd == addMinutes(draftStart, 30)
    IN  [id |-> id, user_id |-> user, category |-> category, start_time |-> draftStart,
         end_time |-> draftEnd, is_active |-> FALSE, synced |-> "undefined"]

\* handleStartSession without the block that stops the running session
stopActiveSkipped(list, active, now) == list

\* updatedSessions of handleStartSession: the active session, if any, stopped at now
stopActive(list, active, now) ==
    IF active # <<>>
    THEN map(list, LAMBDA s : IF s.id = active[1].id THEN stopFields(s, now) ELSE s)
    ELSE list

\* handleStartSession persisting the new session only
persistStartNewOnly(st, updatedSessions, active, newSession) == saveSession(st, newSession)

\* the two saveSession calls of handleStartSession
persistStart(st, updatedSessions, active, newSession) ==
    LET stoppedSession == IF active # <<>>
                          THEN find(updatedSessions, LAMBDA s : s.id = active[1].id)
                          ELSE <<>>
        st1 == IF stoppedSession # <<>> THEN saveSession(st, stoppedSession[1]) ELSE st
    IN  saveSession(st1, newSession)

handleStartSession(category) ==
    /\ trackerEnabled
    /\ IF isBefore(startOfDay(selectedDate), startOfDay(clock \div TicksPerDay))
       THEN /\ editingSession' = <<draftSession(category, nextId)>>
            /\ nextId' = nextId + 1
            /\ last' = "StartDraft"
            /\ UNCHANGED <<sessions, localStorage, inflight, clock>>
       ELSE \E now \in ClockReads :
            \E created \in {t \in {now, now + 1} : t <= ClockStart + MaxClock} :
                LET updatedSessions == stopActive(sessions, activeSession, now)
                    newSession == createSession(category, user, nextId, created)
                    st == persistStart(store, updatedSessions, activeSession, newSession)
                IN  /\ sessions' = <<newSession>> \o updatedSessions
                    /\ localStorage' = st.ls
                    /\ inflight' = st.fl
                    /\ clock' = created
                    /\ nextId' = nextId + 1
                    /\ last' = "Start"
                    /\ UNCHANGED editingSession
    /\ ops' = ops + 1
    /\ UNCHANGED <<failedSaves, calls, range, categories, download>>
    /\ UNCHANGED <<supabase, authUser, user, deletedSessions, selectedDate, remote>>

handleStopSession(sessionId) ==
    /\ trackerEnabled
    /\ \E now \in ClockReads :
        LET sessionToStop == find(sessions, LAMBDA s : s.id = sessionId)
        IN  /\ clock' = now
            /\ last' = "Stop"
            /\ IF sessionToStop = <<>>
               THEN UNCHANGED <<sessions, localStorage, inflight>>
               ELSE LET stoppedSession == stopFields(sessionToStop[1], now)
                        st == saveSession(store, stoppedSession)
                    IN  /\ sessions' = map(sessions, LAMBDA s : IF s.id = sessionId
                                                                 THEN stoppedSession ELSE s)
                        /\ localStorage' = st.ls
                        /\ inflight' = st.fl
    /\ ops' = ops + 1
    /\ UNCHANGED <<failedSaves, calls, range, categories, download>>
    /\ UNCHANGED <<supabase, authUser, user, deletedSessions, editingSession, selectedDate,
                   remote, nextId>>

\* handleUpdateSession replacing every session of the list
updateSessionsEvery(list, updatedSession) ==
    IF some(list, LAMBDA s : s.id = updatedSession.id)
    THEN map(list, LAMBDA s : updatedSession)
    ELSE <<updatedSession>> \o list

\* handleUpdateSession(updatedSession): replace by id, or prepend when the id is new
updateSessions(list, updatedSession) ==
    IF some(list, LAMBDA s : s.id = updatedSession.id)
    THEN map(list, LAMBDA s : IF s.id = updatedSession.id THEN updatedSession ELSE s)
    ELSE <<updatedSession>> \o list

openEditModal(i) ==
    /\ trackerEnabled
    /\ i \in 1..Len(sessions)
    /\ editingSession' = <<sessions[i]>>
    /\ last' = "OpenEdit"
    /\ UNCHANGED <<supabase, authUser, user, sessions, deletedSessions, selectedDate,
                   localStorage, remote, inflight, clock, nextId, ops, failedSaves, calls, range, categories, download>>

closeEditModal ==
    /\ uiEnabled
    /\ editingSession # <<>>
    /\ editingSession' = <<>>
    /\ last' = "CloseEdit"
    /\ UNCHANGED <<supabase, authUser, user, sessions, deletedSessions, selectedDate,
                   localStorage, remote, inflight, clock, nextId, ops, failedSaves, calls, range, categories, download>>

\* format(date, "yyyy-MM-dd'T'HH:mm"): the seconds are dropped
formatMinute(t) == IF t = Null THEN Null ELSE t - (t % TicksPerMinute)

\* the validation with <= for <
editRejectedOnEqual(newStart, newEnd) == newEnd # Null /\ newEnd <= newStart

\* the validation of EditSessionModal.handleSave
editRejected(newStart, newEnd) == newEnd # Null /\ newEnd < newStart

\* handleSave keeping the flag of the session when the end field is empty
editedSessionKeepsFlag(session, newStart, endTime) ==
    [session EXCEPT !.start_time = newStart, !.end_time = endTime,
                    !.is_active = IF endTime # Null THEN FALSE ELSE session.is_active]

\* the session EditSessionModal.handleSave hands to onSave
editedSession(session, newStart, endTime) ==
    LET newEnd == endTime
        isActive == IF endTime # Null THEN FALSE ELSE TRUE
    IN  [session EXCEPT !.start_time = newStart, !.end_time = newEnd, !.is_active = isActive]

\* what the two datetime-local fields can hold: what the effect of the modal put
\* there (the session's times to the minute) or what the user typed
startFieldValues ==
    IF editingSession = <<>> THEN {}
    ELSE EditTimes \cup {formatMinute(editingSession[1].start_time)}
endFieldValues ==
    IF editingSession = <<>> THEN {}
    ELSE EditTimes \cup {Null, formatMinute(editingSession[1].end_time)}

\* EditSessionModal.handleSave with the field contents startTime and endTime
\* (endTime = Null is the empty field), then App.handleUpdateSession
handleSave(startTime, endTime) ==
    /\ uiEnabled
    /\ editingSession # <<>>
    /\ LET session == editingSession[1]
       IN  /\ IF editRejected(startTime, endTime)
              THEN /\ last' = "EditRejected"
                   /\ UNCHANGED <<sessions, localStorage, inflight, editingSession>>
              ELSE LET updatedSession == editedSession(session, startTime, endTime)
                       st == saveSession(store, updatedSession)
                   IN  /\ sessions' = updateSessions(sessions, updatedSession)
                       /\ localStorage' = st.ls
                       /\ inflight' = st.fl
                       /\ editingSession' = <<>>
                       /\ last' = "Edit"
    /\ ops' = ops + 1
    /\ UNCHANGED <<failedSaves, calls, range, categories, download>>
    /\ UNCHANGED <<supabase, authUser, user, deletedSessions, selectedDate, remote, clock, nextId>>

handleDeleteSession(id) ==
    /\ trackerEnabled
    /\ LET sessionToDelete == find(sessions, LAMBDA s : s.id = id)
       IN  IF sessionToDelete # <<>>
           THEN LET st == deleteSession(store, id)
                IN  /\ deletedSessions' = Append(deletedSessions, sessionToDelete[1])
                    /\ sessions' = filter(sessions, LAMBDA s : s.id # id)
                    /\ localStorage' = st.ls
                    /\ inflight' = st.fl
           ELSE UNCHANGED <<deletedSessions, sessions, localStorage, inflight>>
    /\ last' = "Delete"
    /\ ops' = ops + 1
    /\ UNCHANGED <<failedSaves, calls, range, categories, download>>
    /\ UNCHANGED <<supabase, authUser, user, editingSession, selectedDate, remote, clock, nextId>>

handleUndoDelete ==
    /\ trackerEnabled
    /\ deletedSessions # <<>>
    /\ LET lastDeleted == deletedSessions[Len(deletedSessions)]
           st == saveSession(store, lastDeleted)
       IN  /\ deletedSessions' = SubSeq(deletedSessions, 1, Len(deletedSessions) - 1)
           /\ sessions' = sortByStartDesc(sessions \o <<lastDeleted>>)
           /\ localStorage' = st.ls
           /\ inflight' = st.fl
           /\ last' = "Undo"
    /\ ops' = ops + 1
    /\ UNCHANGED <<failedSaves, calls, range, categories, download>>
    /\ UNCHANGED <<supabase, authUser, user, editingSession, selectedDate, remote, clock, nextId>>

\* clearAllData leaving the stored sessions in place
clearAllDataKeepsSessions(ls) == ls

\* clearAllData() of the storage service
clearAllData(ls) == removed

handleClearData ==
    /\ trackerEnabled
    /\ localStorage' = clearAllData(localStorage)
    /\ sessions' = <<>>
    /\ categories' = loadCategories
    /\ last' = "Clear"
    /\ ops' = ops + 1
    /\ UNCHANGED <<failedSaves, calls, range, download>>
    /\ UNCHANGED <<supabase, authUser, user, deletedSessions, editingSession, selectedDate,
                   remote, inflight, clock, nextId>>

\* the date picker
setSelectedDate(d) ==
    /\ trackerEnabled
    /\ d # selectedDate
    /\ selectedDate' = d
    /\ last' = "SelectDate"
    /\ UNCHANGED <<supabase, authUser, user, sessions, deletedSessions, editingSession,
                   localStorage, remote, inflight, clock, nextId, ops, failedSaves, calls, range, categories, download>>

\* getSession().then(...) and the onAuthStateChange callback with a signed-in
\* owner: setUser, then loadData() in the background
authSession ==
    /\ supabase
    /\ authUser' = Owner
    /\ user' = Owner
    /\ inflight' = inflight (+) SetToBag({selectSent})
    /\ last' = "Auth"
    /\ UNCHANGED <<supabase, sessions, deletedSessions, editingSession, selectedDate,
                   localStorage, remote, clock, nextId, ops, failedSaves, calls, range, categories, download>>

(***************************************************************************)
(* The backend answers; awaited calls resume.                              *)
(***************************************************************************)
take(t) == inflight (-) SetToBag({t})

\* the upsert reaches the table and passes its policies, or ends in an error;
\* saveSession only logs the error
upsertDone(t, ok) ==
    /\ t \in BagToSet(inflight) /\ t.kind = "upsert"
    /\ inflight' = take(t)
    /\ LET error == ~(ok /\ writeAllowed(t.row))
       IN  /\ remote' = IF error THEN remote ELSE upsertRow(remote, t.row)
           /\ failedSaves' = IF error THEN failedSaves \cup {t.row} ELSE failedSaves
    /\ UNCHANGED <<supabase, authUser, user, sessions, deletedSessions, editingSession,
                   selectedDate, localStorage, clock, nextId, ops, calls, range, categories, download, last>>

\* the delete reaches the table (ok) or fails; deleteSession only logs the error
deleteDone(t, ok) ==
    /\ t \in BagToSet(inflight) /\ t.kind = "delete"
    /\ inflight' = take(t)
    /\ remote' = IF ok THEN deleteRows(remote, t.id) ELSE remote
    /\ UNCHANGED <<supabase, authUser, user, sessions, deletedSessions, editingSession,
                   selectedDate, localStorage, clock, nextId, ops, failedSaves, calls, range, categories, download, last>>

\* the table answers the select of loadSessions, or the request fails
selectServed(t, ok) ==
    /\ t \in BagToSet(inflight) /\ t.kind = "select" /\ t.phase = "sent"
    /\ \E data \in (IF ok THEN selectResults ELSE {<<>>}) :
        inflight' = take(t) (+) SetToBag({[kind |-> "select", phase |-> "replied",
                                           error |-> ~ok, data |-> data]})
    /\ UNCHANGED <<supabase, authUser, user, sessions, deletedSessions, editingSession,
                   selectedDate, localStorage, remote, clock, nextId, ops, failedSaves, calls, range, categories, download, last>>

\* loadData: loadSessions resumes with the answer, then setSessions(loaded)
loadDataResume(t) ==
    /\ t \in BagToSet(inflight) /\ t.kind = "select" /\ t.phase = "replied"
    /\ LET r == loadSessionsAfterSelect(localStorage, t)
       IN  /\ localStorage' = r.ls
           /\ sessions' = IF r.raised THEN sessions ELSE r.value
           /\ last' = IF r.raised THEN "LoadRaised" ELSE "Load"
    /\ inflight' = take(t)
    /\ UNCHANGED <<supabase, authUser, user, deletedSessions, editingSession, selectedDate,
                   remote, clock, nextId, ops, failedSaves, calls, range, categories, download>>

\* saveSession resumes after supabase.auth.getUser(): the local write, then the upsert
getUserResume(t, ok) ==
    /\ t \in BagToSet(inflight) /\ t.kind = "getUser"
    /\ LET userId == IF ok THEN authUser ELSE NoUser
           st == saveSessionFromLocalWrite([ls |-> localStorage, fl |-> take(t)], t.session, userId)
       IN  /\ localStorage' = st.ls
           /\ inflight' = st.fl
    /\ UNCHANGED <<supabase, authUser, user, sessions, deletedSessions, editingSession,
                   selectedDate, remote, clock, nextId, ops, failedSaves, calls, range, categories, download, last>>

(***************************************************************************)
(* The storage service called directly.                                    *)
(***************************************************************************)
\* the sessions handed to saveSession: with and without an owner, running and stopped
StoreIds == {1, 2}
StoreSessions ==
    {[id |-> id, user_id |-> u, category |-> "Work", start_time |-> ClockStart,
      end_time |-> e, is_active |-> (e = Null), synced |-> "false"] :
        id \in StoreIds, u \in {NoUser, Owner}, e \in {Null, ClockStart + 1}}

saveSessionCalled(session) ==
    /\ LET st == saveSession(store, session)
       IN  /\ localStorage' = st.ls
           /\ inflight' = st.fl
    /\ ops' = ops + 1
    /\ last' = "save"
    /\ UNCHANGED <<supabase, authUser, user, sessions, deletedSessions, editingSession,
                   selectedDate, remote, clock, nextId, failedSaves, range, categories, download>>

deleteSessionCalled(id) ==
    /\ LET st == deleteSession(store, id)
       IN  /\ localStorage' = st.ls
           /\ inflight' = st.fl
    /\ ops' = ops + 1
    /\ last' = "delete"
    /\ UNCHANGED <<supabase, authUser, user, sessions, deletedSessions, editingSession,
                   selectedDate, remote, clock, nextId, failedSaves, range, categories, download>>

\* loadData() with a client: loadSessions awaits the select
loadSessionsCalled ==
    /\ supabase
    /\ inflight' = inflight (+) SetToBag({selectSent})
    /\ ops' = ops + 1
    /\ last' = "load"
    /\ UNCHANGED <<supabase, authUser, user, sessions, deletedSessions, editingSession,
                   selectedDate, localStorage, remote, clock, nextId, failedSaves, range, categories, download>>

\* loadData() without a client: loadSessions returns the local list at once
loadSessionsNoClientCalled ==
    /\ ~supabase
    /\ LET r == loadSessionsNoClient(localStorage)
       IN  /\ localStorage' = r.ls
           /\ sessions' = IF r.raised THEN sessions ELSE r.value
           /\ last' = IF r.raised THEN "LoadRaised" ELSE "Load"
    /\ ops' = ops + 1
    /\ UNCHANGED <<supabase, authUser, user, deletedSessions, editingSession, selectedDate,
                   remote, inflight, clock, nextId, failedSaves, range, categories, download>>

\* the calls as their caller makes them
callSaveSession(session) == saveSessionCalled(session) /\ UNCHANGED calls
callDeleteSession(id) == deleteSessionCalled(id) /\ UNCHANGED calls
callLoadSessions == loadSessionsCalled /\ UNCHANGED calls
callLoadSessionsNoClient == loadSessionsNoClientCalled /\ UNCHANGED calls

\* the same calls, remembered in order
tracedSaveSession(session) ==
    saveSessionCalled(session) /\ calls' = Append(calls, [op |-> "save", session |-> session])
tracedDeleteSession(id) ==
    deleteSessionCalled(id) /\ calls' = Append(calls, [op |-> "delete", id |-> id])
tracedLoadSessions == loadSessionsCalled /\ calls' = Append(calls, [op |-> "load"])
tracedLoadSessionsNoClient ==
    loadSessionsNoClientCalled /\ calls' = Append(calls, [op |-> "load"])

(***************************************************************************)
(* Specifications.                                                         *)
(***************************************************************************)
Ids == 1..nextId                 \* the ids handed out so far and one that was not
Tasks == BagToSet(inflight)

\* the owner is signed in and the first loadData has brought nothing
InitSignedIn ==
    /\ supabase = TRUE
    /\ authUser = Owner
    /\ user = Owner
    /\ sessions = <<>>
    /\ deletedSessions = <<>>
    /\ editingSession = <<>>
    /\ selectedDate = Today
    /\ localStorage = removed
    /\ remote = {}
    /\ inflight = EmptyBag
    /\ clock = ClockStart
    /\ nextId = 1
    /\ ops = 0
    /\ failedSaves = {}
    /\ calls = <<>>
    /\ range = "day"
    /\ download = <<>>
    /\ categories = DEFAULT_CATEGORIES
    /\ last = "Init"

\* Start and Stop alone, from the empty collection
NextStartStop ==
    \/ \E c \in Categories : ops < MaxOps /\ handleStartSession(c)
    \/ \E id \in Ids : ops < MaxOps /\ handleStopSession(id)

SpecStartStop == InitSignedIn /\ [][NextStartStop]_vars

\* every handler of the tracker, while the backend has not answered yet
NextOps ==
    \/ \E d \in Dates : setSelectedDate(d)
    \/ \E c \in Categories : ops < MaxOps /\ handleStartSession(c)
    \/ \E id \in Ids : ops < MaxOps /\ handleStopSession(id)
    \/ \E i \in 1..Len(sessions) : openEditModal(i)
    \/ closeEditModal
    \/ \E startTime \in startFieldValues, endTime \in endFieldValues :
          ops < MaxOps /\ handleSave(startTime, endTime)
    \/ \E id \in Ids : ops < MaxOps /\ handleDeleteSession(id)
    \/ ops < MaxOps /\ handleUndoDelete
    \/ ops < MaxOps /\ handleClearData

SpecOps == InitSignedIn /\ [][NextOps]_vars

\* the handlers while the backend cannot be reached: the writes stay unanswered,
\* and the loadData of an auth event, one at a time, ends in the fallback
selectPending == \E t \in Tasks : t.kind = "select"

NextLocal ==
    \/ ~selectPending /\ authSession
    \/ \E t \in Tasks : selectServed(t, FALSE)
    \/ \E t \in Tasks : loadDataResume(t)
    \/ \E d \in Dates : setSelectedDate(d)
    \/ \E c \in Categories : ops < MaxLocalOps /\ handleStartSession(c)
    \/ \E id \in Ids : ops < MaxLocalOps /\ handleStopSession(id)
    \/ \E i \in 1..Len(sessions) : openEditModal(i)
    \/ closeEditModal
    \/ \E startTime \in startFieldValues, endTime \in endFieldValues :
          ops < MaxLocalOps /\ handleSave(startTime, endTime)
    \/ \E id \in Ids : ops < MaxLocalOps /\ handleDeleteSession(id)
    \/ ops < MaxLocalOps /\ handleUndoDelete

SpecLocal == InitSignedIn /\ [][NextLocal]_vars

\* the handlers together with the backend's answers and the background loadData
Next ==
    \/ BagCardinality(inflight) < MaxInflight /\ authSession
    \/ \E d \in Dates : setSelectedDate(d)
    \/ \E c \in Categories :
          ops < MaxSyncOps /\ BagCardinality(inflight) < MaxInflight /\ handleStartSession(c)
    \/ \E id \in Ids :
          ops < MaxSyncOps /\ BagCardinality(inflight) < MaxInflight /\ handleStopSession(id)
    \/ \E i \in 1..Len(sessions) : openEditModal(i)
    \/ closeEditModal
    \/ \E startTime \in startFieldValues, endTime \in endFieldValues :
          ops < MaxSyncOps /\ BagCardinality(inflight) < MaxInflight /\ handleSave(startTime, endTime)
    \/ \E id \in Ids :
          ops < MaxSyncOps /\ BagCardinality(inflight) < MaxInflight /\ handleDeleteSession(id)
    \/ ops < MaxSyncOps /\ BagCardinality(inflight) < MaxInflight /\ handleUndoDelete
    \/ ops < MaxSyncOps /\ handleClearData
    \/ \E t \in Tasks, ok \in BOOLEAN : upsertDone(t, ok)
    \/ \E t \in Tasks, ok \in BOOLEAN : deleteDone(t, ok)
    \/ \E t \in Tasks, ok \in BOOLEAN : selectServed(t, ok)
    \/ \E t \in Tasks : loadDataResume(t)

Spec == Init /\ [][Next]_vars

\* the storage service under any caller: with or without a client, signed in or
\* not, over an empty, a filled or an unreadable stored value
InitStore ==
    /\ supabase \in BOOLEAN
    /\ authUser \in {NoUser, Owner}
    /\ user = authUser
    /\ sessions = <<>>
    /\ deletedSessions = <<>>
    /\ editingSession = <<>>
    /\ selectedDate = Today
    /\ localStorage \in {removed, garbage}
    /\ remote = {}
    /\ inflight = EmptyBag
    /\ clock = ClockStart
    /\ nextId = 1
    /\ ops = 0
    /\ failedSaves = {}
    /\ calls = <<>>
    /\ range = "day"
    /\ download = <<>>
    /\ categories = DEFAULT_CATEGORIES
    /\ last = "Init"

NextStore ==
    \/ \E s \in StoreSessions : ops < MaxCalls /\ callSaveSession(s)
    \/ \E id \in StoreIds : ops < MaxCalls /\ callDeleteSession(id)
    \/ ops < MaxCalls /\ callLoadSessions
    \/ ops < MaxCalls /\ callLoadSessionsNoClient
    \/ \E t \in Tasks, ok \in BOOLEAN : getUserResume(t, ok)
    \/ \E t \in Tasks, ok \in BOOLEAN : upsertDone(t, ok)
    \/ \E t \in Tasks, ok \in BOOLEAN : deleteDone(t, ok)
    \/ \E t \in Tasks, ok \in BOOLEAN : selectServed(t, ok)
    \/ \E t \in Tasks : loadDataResume(t)

SpecStore == InitStore /\ [][NextStore]_vars

\* the storage service with its calls remembered; the sessions saved are running
TracedSessions == {s \in StoreSessions : s.end_time = Null}

NextCalls ==
    \/ \E s \in TracedSessions : ops < MaxCalls /\ tracedSaveSession(s)
    \/ \E id \in StoreIds : ops < MaxCalls /\ tracedDeleteSession(id)
    \/ ops < MaxCalls /\ tracedLoadSessions
    \/ ops < MaxCalls /\ tracedLoadSessionsNoClient
    \/ \E t \in Tasks, ok \in BOOLEAN : getUserResume(t, ok)
    \/ \E t \in Tasks, ok \in BOOLEAN : upsertDone(t, ok)
    \/ \E t \in Tasks, ok \in BOOLEAN : deleteDone(t, ok)
    \/ \E t \in Tasks, ok \in BOOLEAN : selectServed(t, ok)
    \/ \E t \in Tasks : loadDataResume(t)

SpecCalls == InitStore /\ [][NextCalls]_vars

(***************************************************************************)
(* Properties.                                                             *)
(***************************************************************************)
\* the list held in the local cache; the empty list when nothing readable is stored
cachedOf(ls) == IF ls.kind = "json" THEN ls.data ELSE <<>>
cached == cachedOf(localStorage)
activeCount(list) == Cardinality({i \in 1..Len(list) : list[i].is_active})
hasId(list, id) == \E i \in 1..Len(list) : list[i].id = id
othersOf(list, id) == SelectSeq(list, LAMBDA s : s.id # id)
\* a step of a handler: only handlers count operations
handlerStep(name) == ops' = ops + 1 /\ last' = name

\* C1: after every operation of a sequence of Start and Stop from the empty
\* collection, at most one session of the collection is active.
C1_AtMostOneActive == activeCount(sessions) <= 1

\* a Start has closed the session that was running and opened another
C1_Witness ==
    /\ last = "Start"
    /\ Len(sessions) >= 2
    /\ activeCount(sessions) = 1
    /\ \E i \in 2..Len(sessions) : ~sessions[i].is_active

\* C2: right after Start on today's date, the session Start created is the
\* only active session of the collection.
C2_StartLeavesOnlyNewActive ==
    last = "Start" =>
        \A i \in 1..Len(sessions) : sessions[i].is_active <=> sessions[i].id = nextId - 1

\* C3: Start while a session P is active stops P at the instant of the Start
\* (read between the clock before and the clock after the step), creates N
\* active with P.end_time <= N.start_time, and writes both to the local cache.
C3_StartStopsPrevious ==
    [][(handlerStep("Start") /\ activeSession # <<>>) =>
        LET P == activeSession[1]
            N == sessions'[1]
        IN  /\ N.id = nextId /\ N.is_active /\ N.end_time = Null
            /\ hasId(sessions', P.id)
            /\ \A i \in 1..Len(sessions') : sessions'[i].id = P.id =>
                  /\ ~sessions'[i].is_active
                  /\ sessions'[i].end_time \in clock..clock'
                  /\ sessions'[i].end_time <= N.start_time
                  /\ sessions'[i].start_time = P.start_time
                  /\ sessions'[i] \in Range(cached')
            /\ N \in Range(cached')]_vars

\* Start has replaced a running session: both are in the collection and in the cache
C3_Witness ==
    /\ last = "Start"
    /\ Len(sessions) >= 2
    /\ sessions[1].is_active
    /\ sessions[1] \in Range(cached)
    /\ \E i \in 2..Len(sessions) :
          /\ ~sessions[i].is_active
          /\ sessions[i].end_time >= ClockStart
          /\ sessions[i].end_time <= sessions[1].start_time
          /\ sessions[i] \in Range(cached)

\* C4: every session of the collection and of the local cache is active
\* exactly when it has no end_time.
C4_ActiveIffNoEnd ==
    \A s \in Range(sessions) \cup Range(cached) : s.is_active <=> s.end_time = Null

\* an Edit has left a running and a stopped session behind
C4_Witness ==
    /\ last = "Edit"
    /\ \E s \in Range(sessions) : s.is_active
    /\ \E s \in Range(sessions) : ~s.is_active
    /\ \E s \in Range(cached) : s.is_active
    /\ \E s \in Range(cached) : ~s.is_active

\* C5: Stop(sessionId) of an id that is not in the collection, or of a session
\* that is already stopped, changes neither the collection nor the local cache
\* and issues no remote write.
C5_StopIsNoOp ==
    [][\A id \in Ids :
        (/\ handleStopSession(id)
         /\ \A i \in 1..Len(sessions) : sessions[i].id = id => ~sessions[i].is_active)
        => UNCHANGED <<sessions, localStorage, inflight>>]_vars

\* C6: an Edit whose end is before its start changes nothing; every other
\* Edit is accepted: the collection and the cache hold the edited session.
C6_EditValidation ==
    [][\A startTime \in startFieldValues, endTime \in endFieldValues :
        handleSave(startTime, endTime) =>
            IF endTime # Null /\ endTime < startTime
            THEN UNCHANGED <<sessions, localStorage, remote, inflight>>
            ELSE /\ \E s \in Range(sessions') :
                      /\ s.id = editingSession[1].id
                      /\ s.start_time = startTime /\ s.end_time = endTime
                      /\ s \in Range(cached')
                 /\ last' = "Edit"]_vars

\* an Edit has been rejected and the modal is still open
C6_Witness == last = "EditRejected" /\ editingSession # <<>> /\ sessions # <<>>

C8_LocalWriteInCallStep ==
    [][/\ \A s \in StoreSessions :
            (callSaveSession(s) /\ localStorage.kind # "garbage") =>
                \E c \in Range(cached') :
                    c.id = s.id /\ [c EXCEPT !.user_id = s.user_id] = s
       /\ \A id \in StoreIds :
            (callDeleteSession(id) /\ localStorage.kind # "garbage") =>
                ~hasId(cached', id)]_vars

\* C9: a session that is in the local cache and whose upsert failed is still
\* in the local cache, and in the returned list, when a later loadSessions ends.
C9_FailedSaveSurvivesLoad ==
    [][\A t \in Tasks : loadDataResume(t) =>
        \A r \in failedSaves : r \in Range(cached) =>
            r \in Range(cached') /\ r \in Range(sessions')]_vars

\* C10: loadSessions never raises; after a select that succeeded it returns the
\* fetched list and the local cache holds that list; after a select that failed,
\* or without a client, it returns the list of the local cache (the empty list
\* when nothing or nothing readable is stored) and leaves the stored value alone.
C10_LoadResult ==
    [][/\ \A t \in Tasks : loadDataResume(t) =>
            /\ last' = "Load"
            /\ IF ~t.error
               THEN sessions' = t.data /\ localStorage' = stringify(t.data)
               ELSE sessions' = cachedOf(localStorage) /\ UNCHANGED localStorage
       /\ callLoadSessionsNoClient =>
            /\ last' = "Load"
            /\ sessions' = cachedOf(localStorage) /\ UNCHANGED localStorage]_vars

\* a load has returned rows of the table and the cache holds them
C10_Witness ==
    /\ last = "Load"
    /\ sessions # <<>>
    /\ Range(sessions) \subseteq remote
    /\ localStorage = stringify(sessions)

\* the last call of the storage service that writes (save or delete), as <<call>>, or <<>>
lastWriteCall ==
    LET w == SelectSeq(calls, LAMBDA c : c.op # "load")
    IN  IF w = <<>> THEN <<>> ELSE <<w[Len(w)]>>
\* a saveSession is still waiting for supabase.auth.getUser()
lookupPending == \E t \in Tasks : t.kind = "getUser"
entriesOf(list, id) == {i \in 1..Len(list) : list[i].id = id}
roundTrip(list, s) ==
    /\ Cardinality(entriesOf(list, s.id)) = 1
    /\ \A i \in entriesOf(list, s.id) : list[i] = s

\* C11: whatever the stored value was before, when saveSession(s) has done its
\* work and loadSessions then ends with the remote unavailable (the select
\* failed, or there is no client), the returned list holds exactly one session
\* with the id of s, and it is equal to s in every field.
C11_SaveLoadRoundTrip ==
    [][(lastWriteCall # <<>> /\ lastWriteCall[1].op = "save" /\ ~lookupPending) =>
        LET s == lastWriteCall[1].session
        IN  /\ \A t \in Tasks : (loadDataResume(t) /\ t.error) =>
                  last' = "Load" /\ roundTrip(sessions', s)
            /\ tracedLoadSessionsNoClient => (last' = "Load" /\ roundTrip(sessions', s))]_vars

noDuplicateIds(list) == \A i, j \in 1..Len(list) : list[i].id = list[j].id => i = j
\* the entry saveSession stores for session once the owner id is userId
storedEntry(session, userId) ==
    IF userId # NoUser THEN [session EXCEPT !.user_id = userId] ELSE session
sameEntriesOneOf(id) ==
    Range(cached') = Range(cached) /\ Cardinality(entriesOf(cached', id)) = 1

\* C12: after every step the local cache holds no two entries with one id; and a
\* saveSession(s) that follows a saveSession(s) with the same content, whose
\* entry is in the cache, leaves the cache with the same set of entries and
\* exactly one entry for the id of s.
C12_SaveIdempotent ==
    [][/\ noDuplicateIds(cached')
       /\ \A s \in TracedSessions :
            (/\ tracedSaveSession(s)
             /\ ~(supabase /\ s.user_id = NoUser)
             /\ calls # <<>> /\ calls[Len(calls)] = [op |-> "save", session |-> s]
             /\ s \in Range(cached))
            => sameEntriesOneOf(s.id)
       /\ \A t \in Tasks, ok \in BOOLEAN :
            (/\ getUserResume(t, ok)
             /\ storedEntry(t.session, IF ok THEN authUser ELSE NoUser) \in Range(cached))
            => sameEntriesOneOf(t.session.id)]_vars

\* the same session has been saved twice in a row beside another one
C12_Witness ==
    /\ last = "save"
    /\ Len(calls) >= 2
    /\ calls[Len(calls)].op = "save"
    /\ calls[Len(calls)] = calls[Len(calls) - 1]
    /\ Len(cached) = 2
    /\ Cardinality(entriesOf(cached, calls[Len(calls)].session.id)) = 1

\* C13: while the backend cannot be reached, Delete(id) takes the id out of the
\* collection and of the local cache; the id comes back into the cache only by a
\* handler that saves it again; a loadData that ends while the cache has no
\* entry with the id returns no session with it; and Delete(id) of an id that is
\* not in the collection (a second Delete) changes neither the collection, the
\* local cache nor the undo stack, issues no call and ends normally.
C13_DeleteRemoves ==
    [][\A id \in Ids :
        /\ handleDeleteSession(id) => (~hasId(sessions', id) /\ ~hasId(cached', id))
        /\ (handleDeleteSession(id) /\ ~hasId(sessions, id)) =>
              (last' = "Delete" /\ UNCHANGED <<sessions, localStorage, deletedSessions, inflight>>)
        /\ (~hasId(cached, id) /\ hasId(cached', id)) =>
              (/\ ops' = ops + 1
               /\ last' \in {"Start", "Stop", "Edit", "Undo"}
               /\ hasId(sessions', id))
        /\ \A t \in Tasks : (loadDataResume(t) /\ ~hasId(cached, id)) =>
              (last' = "Load" /\ ~hasId(sessions', id))]_vars

\* a loadData has ended after a Delete: it returned the session that was kept
\* and not the one that was deleted
C13_Witness ==
    /\ last = "Load"
    /\ deletedSessions # <<>>
    /\ sessions # <<>>
    /\ \A d \in Range(deletedSessions) : ~hasId(sessions, d.id) /\ ~hasId(cached, d.id)

\* every call so far was a saveSession, of at least two sessions, each of another id
concurrentSaves ==
    /\ Len(calls) >= 2
    /\ \A i \in 1..Len(calls) : calls[i].op = "save"
    /\ \A i, j \in 1..Len(calls) : calls[i].session.id = calls[j].session.id => i = j

\* C14: when saveSession has been called for two or more sessions of different
\* ids over an absent or readable stored value, and every awaited step of these
\* calls has ended, in whatever order, the local cache holds one entry for each
\* call and nothing else, and each entry is the session that was passed (with
\* the owner's id filled in when the session carried none).
C14_ConcurrentSaves ==
    (concurrentSaves /\ inflight = EmptyBag /\ localStorage.kind # "garbage") =>
        /\ Len(cached) = Len(calls)
        /\ \A i \in 1..Len(calls) :
              /\ Cardinality(entriesOf(cached, calls[i].session.id)) = 1
              /\ \A k \in entriesOf(cached, calls[i].session.id) :
                    \/ cached[k] = calls[i].session
                    \/ /\ calls[i].session.user_id = NoUser
                       /\ cached[k] = storedEntry(calls[i].session, authUser)

\* two saves have ended out of order: the session saved first was written last
C14_Witness ==
    /\ concurrentSaves
    /\ inflight = EmptyBag
    /\ supabase
    /\ Len(cached) = 2
    /\ cached[1].id = calls[1].session.id
    /\ cached[2].id = calls[2].session.id

\* C15: the list a loadData returns is ordered by start_time, newest first.
C15_LoadOrdered ==
    [][\A t \in Tasks : loadDataResume(t) => isSortedByStartDesc(sessions')]_vars

\* C16: without a client, or without a signed-in owner, the tracker still
\* accepts a Start.
C16_LocalOnlyTracking ==
    (~supabase \/ user = NoUser) => \E c \in Categories : ENABLED handleStartSession(c)

(***************************************************************************)
(* StatisticsModal: the calendar.                                          *)
(*                                                                         *)
(* A Date is counted in half ticks (15 seconds).  Every instant of a       *)
(* session and every reading of the clock is a whole tick, and the last    *)
(* millisecond of a period (endOfDay, endOfWeek, ...) is the half tick     *)
(* before the next period: comparing two Dates and rounding their          *)
(* difference to minutes then give what the millisecond values give.       *)
(* Day 0 is Thursday 1 January of a year of 365 days, and so are the       *)
(* years around it.                                                        *)
(***************************************************************************)
DateUnitsPerTick == 2
DateUnitsPerMinute == DateUnitsPerTick * TicksPerMinute
DateUnitsPerDay == DateUnitsPerTick * TicksPerDay
DaysPerWeek == 7
DaysPerYear == 365
MonthsPerYear == 12
EpochWeekday == 4                \* getDay() of day 0: Thursday, Sunday being 0
\* the day of the year each month starts at
MonthStarts == <<0, 31, 59, 90, 120, 151, 181, 212, 243, 273, 304, 334>>

\* new Date(isoString) and new Date() for a reading of the clock
toDate(t) == DateUnitsPerTick * t
\* Math.round((b.getTime() - a.getTime()) / 60000) for a difference of d units
roundMinutes(d) == (2 * d + DateUnitsPerMinute) \div (2 * DateUnitsPerMinute)

dayNumber(x) == x \div DateUnitsPerDay
dateOfDay(n) == n * DateUnitsPerDay
yearOfDay(n) == n \div DaysPerYear
monthOfDay(n) ==
    LET doy == n % DaysPerYear
    IN  CHOOSE m \in 1..MonthsPerYear :
            /\ MonthStarts[m] <= doy
            /\ m < MonthsPerYear => doy < MonthStarts[m + 1]
\* months counted from January of year 0
monthNumber(x) == yearOfDay(dayNumber(x)) * MonthsPerYear + monthOfDay(dayNumber(x)) - 1
dateOfMonth(k) ==
    dateOfDay((k \div MonthsPerYear) * DaysPerYear + MonthStarts[(k % MonthsPerYear) + 1])

startOfDayOf(x) == dateOfDay(dayNumber(x))
endOfDay(x) == dateOfDay(dayNumber(x) + 1) - 1
subDays(x, n) == x - n * DateUnitsPerDay
\* weeks start on Sunday
startOfWeek(x) == dateOfDay(dayNumber(x) - ((dayNumber(x) + EpochWeekday) % DaysPerWeek))
endOfWeek(x) == startOfWeek(x) + DaysPerWeek * DateUnitsPerDay - 1
startOfMonth(x) == dateOfMonth(monthNumber(x))
endOfMonth(x) == dateOfMonth(monthNumber(x) + 1) - 1
startOfYear(x) == dateOfDay(yearOfDay(dayNumber(x)) * DaysPerYear)
endOfYear(x) == dateOfDay((yearOfDay(dayNumber(x)) + 1) * DaysPerYear) - 1
isWithinInterval(x, interval) == interval.start <= x /\ x <= interval.end

\* the start of every day, week, month that the interval touches
eachDayOfInterval(interval) ==
    [i \in 1..(dayNumber(interval.end) - dayNumber(interval.start) + 1) |->
        dateOfDay(dayNumber(interval.start) + i - 1)]
eachWeekOfInterval(interval) ==
    [i \in 1..((dayNumber(startOfWeek(interval.end)) - dayNumber(startOfWeek(interval.start)))
                   \div DaysPerWeek + 1) |->
        startOfWeek(interval.start) + (i - 1) * DaysPerWeek * DateUnitsPerDay]
eachMonthOfInterval(interval) ==
    [i \in 1..(monthNumber(interval.end) - monthNumber(interval.start) + 1) |->
        dateOfMonth(monthNumber(interval.start) + i - 1)]

(***************************************************************************)
(* StatisticsModal: filteredSessions and chartData.                        *)
(***************************************************************************)
TimeRanges == {"day", "week", "month", "year"}

\* the window of a range, read at `now`
windowOf(rng, now) ==
    CASE rng = "day" -> [start |-> startOfDayOf(now), end |-> endOfDay(now)]
      [] rng = "week" -> [start |-> subDays(now, 6), end |-> endOfDay(now)]
      [] rng = "month" -> [start |-> startOfMonth(now), end |-> endOfMonth(now)]
      [] rng = "year" -> [start |-> startOfYear(now), end |-> endOfYear(now)]

filtered(list, rng, now) ==
    filter(list, LAMBDA s : isWithinInterval(toDate(s.start_time), windowOf(rng, now)))

\* s.end_time ? new Date(s.end_time) : new Date()
sEndOf(s, now) == IF s.end_time # Null THEN toDate(s.end_time) ELSE now

RECURSIVE sumOf(_)
sumOf(q) == IF q = <<>> THEN 0 ELSE q[1] + sumOf(Tail(q))

\* the minutes the pie adds for one session
pieMinutes(s, now) == roundMinutes(sEndOf(s, now) - toDate(s.start_time))

\* catMap: for every category of the list, the sum of its sessions' minutes
catMapOf(list, now) ==
    [c \in {list[i].category : i \in 1..Len(list)} |->
        sumOf(map(filter(list, LAMBDA s : s.category = c), LAMBDA s : pieMinutes(s, now)))]

\* the sub-buckets of a range: none for the day
bucketsOf(rng, now) ==
    CASE rng = "week" ->
            map(eachDayOfInterval([start |-> subDays(now, 6), end |-> now]),
                LAMBDA day : [start |-> startOfDayOf(day), end |-> endOfDay(day)])
      [] rng = "month" ->
            map(eachWeekOfInterval([start |-> startOfMonth(now), end |-> endOfMonth(now)]),
                LAMBDA weekStart : [start |-> weekStart, end |-> endOfWeek(weekStart)])
      [] rng = "year" ->
            map(eachMonthOfInterval([start |-> startOfYear(now), end |-> endOfYear(now)]),
                LAMBDA month : [start |-> startOfMonth(month), end |-> endOfMonth(month)])
      [] OTHER -> <<>>

\* the minutes a sub-bucket adds for one session: the overlap, when there is one
overlapMinutes(s, bucket, now) ==
    LET sStart == toDate(s.start_time)
        sEnd == sEndOf(s, now)
        overlapStart == IF sStart < bucket.start THEN bucket.start ELSE sStart
        overlapEnd == IF sEnd > bucket.end THEN bucket.end ELSE sEnd
    IN  IF overlapStart < overlapEnd THEN roundMinutes(overlapEnd - overlapStart) ELSE 0
hasOverlap(s, bucket, now) ==
    LET sStart == toDate(s.start_time)
        sEnd == sEndOf(s, now)
        overlapStart == IF sStart < bucket.start THEN bucket.start ELSE sStart
        overlapEnd == IF sEnd > bucket.end THEN bucket.end ELSE sEnd
    IN  overlapStart < overlapEnd

\* one bar: segmentsMap has a key for every category with an overlapping session
barOf(list, bucket, now) ==
    LET credited == filter(list, LAMBDA s : hasOverlap(s, bucket, now))
    IN  [total |-> sumOf(map(credited, LAMBDA s : overlapMinutes(s, bucket, now))),
         segments |->
            [c \in {credited[i].category : i \in 1..Len(credited)} |->
                sumOf(map(filter(credited, LAMBDA s : s.category = c),
                          LAMBDA s : overlapMinutes(s, bucket, now)))]]

\* Object.entries(catMap): the categories in the order they were first added
RECURSIVE keysOf(_)
keysOf(list) ==
    IF list = <<>> THEN <<>>
    ELSE LET rest == keysOf(SubSeq(list, 1, Len(list) - 1))
             c == list[Len(list)].category
         IN  IF c \in Range(rest) THEN rest ELSE Append(rest, c)

insertByValueDesc(sorted, x) ==
    LET k == Cardinality({i \in 1..Len(sorted) : sorted[i].value >= x.value})
    IN  SubSeq(sorted, 1, k) \o <<x>> \o SubSeq(sorted, k + 1, Len(sorted))

RECURSIVE sortByValueDesc(_)
\* Array.prototype.sort((a, b) => b.value - a.value)
sortByValueDesc(s) ==
    IF s = <<>> THEN <<>>
    ELSE insertByValueDesc(sortByValueDesc(SubSeq(s, 1, Len(s) - 1)), s[Len(s)])

pieDataOf(list, now) ==
    sortByValueDesc(map(keysOf(list),
                        LAMBDA c : [label |-> c, value |-> catMapOf(list, now)[c]]))

\* the memoised values of the modal as the last render computed them
filteredSessions == filtered(sessions, range, toDate(clock))
catMap == catMapOf(filteredSessions, toDate(clock))
pieData == pieDataOf(filteredSessions, toDate(clock))
barData ==
    map(bucketsOf(range, toDate(clock)),
        LAMBDA bucket : barOf(filteredSessions, bucket, toDate(clock)))

\* the tabs of the modal
setRange(r) ==
    /\ uiEnabled
    /\ r \in TimeRanges
    /\ range' = r
    /\ last' = "setRange"
    /\ UNCHANGED <<supabase, authUser, user, sessions, deletedSessions, editingSession,
                   selectedDate, localStorage, remote, inflight, clock, nextId, ops,
                   failedSaves, calls, categories, download>>

(***************************************************************************)
(* StatisticsModal over a collection of sessions.                          *)
(***************************************************************************)
MaxStatSessions == 2  \* sessions in the collection handed to the modal

StatCategories == {"Work", "Sleep"}
\* Tuesday 31 March 09:00:30, and Friday 1 January of the next year 09:00:30
StatNows ==
    {addHours(startOfDay(d), 9) + 1 : d \in {MonthStarts[4] - 1, DaysPerYear}}
\* the instants sessions start and end at, around the day of `now`: 08:00 six days
\* before, 22:00 and 23:59:30 the day before, 02:00, 08:00, 08:30:30, 22:00, 02:00
\* the day after
StatInstants(now) ==
    LET today == startOfDay(now \div TicksPerDay)
    IN  {addHours(today, 8 - 6 * 24), addHours(today, -2), today - 1, addHours(today, 2),
         addHours(today, 8), addMinutes(addHours(today, 8), 30) + 1,
         addHours(today, 22), addHours(today, 26)}
StatSessions(now) ==
    {[id |-> 1, user_id |-> Owner, category |-> c, start_time |-> b,
      end_time |-> e, is_active |-> (e = Null), synced |-> "true"] :
        c \in StatCategories, b \in StatInstants(now), e \in StatInstants(now) \cup {Null}}
StatLists(now) ==
    UNION {[1..n -> StatSessions(now)] : n \in 0..MaxStatSessions}

\* the owner is signed in and loadData has brought a collection
InitStats ==
    /\ supabase = TRUE
    /\ authUser = Owner
    /\ user = Owner
    /\ clock \in StatNows
    /\ \E list \in StatLists(clock) :
          sessions = [i \in 1..Len(list) |-> [list[i] EXCEPT !.id = i]]
    /\ deletedSessions = <<>>
    /\ editingSession = <<>>
    /\ selectedDate = Today
    /\ localStorage = stringify(sessions)
    /\ remote = Range(sessions)
    /\ inflight = EmptyBag
    /\ nextId = Len(sessions) + 1
    /\ ops = 0
    /\ failedSaves = {}
    /\ calls = <<>>
    /\ range = "day"
    /\ download = <<>>
    /\ categories = DEFAULT_CATEGORIES
    /\ last = "Init"

NextStats == \E r \in TimeRanges : setRange(r)

SpecStats == InitStats /\ [][NextStats]_vars

\* effectiveEnd: end_time when stopped, else now
effectiveEnd(s) == IF s.end_time # Null THEN toDate(s.end_time) ELSE toDate(clock)
window == windowOf(range, toDate(clock))
\* some instant of [start_time, effectiveEnd] lies in the window
intersectsWindow(s) ==
    /\ toDate(s.start_time) <= effectiveEnd(s)
    /\ toDate(s.start_time) <= window.end
    /\ window.start <= effectiveEnd(s)

\* C17: whatever the range, the sessions that are aggregated are exactly the
\* sessions of the collection whose interval [start_time, effectiveEnd] meets the
\* window; a session that started before the window and ends in it is among them.
C17_InputIntersectsWindow ==
    filteredSessions = filter(sessions, intersectsWindow)

buckets == bucketsOf(range, toDate(clock))
\* the session at position i is among the sessions that are aggregated
aggregated(i) == isWithinInterval(toDate(sessions[i].start_time), window)
\* the minutes a sub-bucket is credited for the session at position i
creditOf(i, bucket) ==
    IF aggregated(i) THEN overlapMinutes(sessions[i], bucket, toDate(clock)) ELSE 0
\* the length, in Date units, of the part of the session at position i that lies
\* in an interval, the last unit of the interval included
insideOf(i, interval) ==
    LET b == IF toDate(sessions[i].start_time) < interval.start
             THEN interval.start ELSE toDate(sessions[i].start_time)
        e == IF effectiveEnd(sessions[i]) > interval.end + 1
             THEN interval.end + 1 ELSE effectiveEnd(sessions[i])
    IN  IF b < e THEN e - b ELSE 0
\* the session at position i runs over the start of a sub-bucket after the first
crossesBoundary(i, bs) ==
    \E k \in 2..Len(bs) :
        /\ toDate(sessions[i].start_time) < bs[k].start
        /\ bs[k].start < effectiveEnd(sessions[i])
\* m minutes are d Date units, up to half a minute for each of n rounded terms
minutesMatch(m, d, n) ==
    /\ DateUnitsPerMinute * m - d <= n * (DateUnitsPerMinute \div 2)
    /\ d - DateUnitsPerMinute * m <= n * (DateUnitsPerMinute \div 2)
\* the session at position i is split over the sub-buckets bs
splitByOverlap(i, bs) ==
    LET credits == [k \in 1..Len(bs) |-> creditOf(i, bs[k])]
    IN  /\ \A k \in 1..Len(bs) : minutesMatch(credits[k], insideOf(i, bs[k]), 1)
        /\ minutesMatch(sumOf(credits), insideOf(i, window),
                        Cardinality({k \in 1..Len(bs) : credits[k] # 0}))

\* C18: a session that runs over a sub-bucket boundary is split: every sub-bucket is
\* credited the length of the session's overlap with it, rounded to minutes; the
\* sub-buckets share no instant; and the credits add up to the length of the
\* session inside the window, up to the rounding of each credit.
C18_SplitByOverlap ==
    LET bs == buckets
    IN  /\ \A k, l \in 1..Len(bs) : k < l => bs[k].end < bs[l].start
        /\ \A i \in 1..Len(sessions) : crossesBoundary(i, bs) => splitByOverlap(i, bs)

\* the minutes of a category in a bar, none when the bar has no such segment
segmentOf(bar, c) == IF c \in DOMAIN bar.segments THEN bar.segments[c] ELSE 0
\* the rounded terms behind a category's figures: one for each aggregated session
\* in the pie, one for each overlap of such a session with a sub-bucket in the bars
termsOf(c, bs) ==
    LET mine == {i \in 1..Len(sessions) : aggregated(i) /\ sessions[i].category = c}
    IN  Cardinality(mine)
        + Cardinality({p \in mine \X (1..Len(bs)) :
                          hasOverlap(sessions[p[1]], bs[p[2]], toDate(clock))})
\* the bars of a category add up to its slice of the pie, up to half a minute a term
barsMatchPie(c, bs, bars, pie) ==
    LET inBars == sumOf([k \in 1..Len(bars) |-> segmentOf(bars[k], c)])
        inPie == IF c \in DOMAIN pie THEN pie[c] ELSE 0
    IN  /\ 2 * (inBars - inPie) <= termsOf(c, bs)
        /\ 2 * (inPie - inBars) <= termsOf(c, bs)

\* C19: in the week, the month and the year, whatever the collection, the minutes
\* of a category summed over all bars equal the minutes of that category in the
\* pie, up to the rounding of each term.
C19_BarsSumToPie ==
    range # "day" =>
        LET bs == buckets
            bars == barData
            pie == catMap
        IN  \A c \in StatCategories : barsMatchPie(c, bs, bars, pie)

\* start_time is after end_time
reversed(s) == s.end_time # Null /\ s.start_time > s.end_time
valueOf(m, c) == IF c \in DOMAIN m THEN m[c] ELSE 0

\* C20: a session whose start_time is after its end_time adds nothing to any
\* aggregate: every slice of the pie and every segment and total of a bar is what
\* it is without such sessions.
C20_ReversedAddsNothing ==
    LET now == toDate(clock)
        all == filteredSessions
        sound == filter(all, LAMBDA s : ~reversed(s))
        pieAll == catMapOf(all, now)
        pieSound == catMapOf(sound, now)
        bs == buckets
    IN  /\ \A c \in StatCategories : valueOf(pieAll, c) = valueOf(pieSound, c)
        /\ \A k \in 1..Len(bs) :
              /\ barOf(all, bs[k], now).total = barOf(sound, bs[k], now).total
              /\ \A c \in StatCategories :
                    segmentOf(barOf(all, bs[k], now), c) = segmentOf(barOf(sound, bs[k], now), c)

\* C21: no entry of the charts is worth less than a minute: every slice of the
\* pie and every segment of every bar has a value of at least one.
C21_NoZeroEntries ==
    LET pie == catMap
        bars == barData
    IN  /\ \A c \in DOMAIN pie : pie[c] >= 1
        /\ \A k \in 1..Len(bars) : \A c \in DOMAIN bars[k].segments : bars[k].segments[c] >= 1

(***************************************************************************)
(* SettingsModal: the categories.                                          *)
(*                                                                         *)
(* A name is a sequence of characters.  The value under CATEGORIES_KEY is  *)
(* written after every change of `categories` and read when the App starts *)
(* and after clearAllData has removed it.                                  *)
(***************************************************************************)
MaxCategoryOps == 3   \* operations on the categories
MaxNameLen == 2       \* characters typed into the name field

Chars == {"a", "A", " "}
Icons == {"Activity"}
NoId == 0                        \* cat.id of a bare string: undefined
\* String.prototype.toLowerCase
lowerChar(ch) == IF ch = "A" THEN "a" ELSE ch
toLowerCase(str) == [i \in 1..Len(str) |-> lowerChar(str[i])]
\* String.prototype.trim
RECURSIVE trimStart(_)
trimStart(str) ==
    IF str # <<>> /\ str[1] = " " THEN trimStart(Tail(str)) ELSE str
RECURSIVE trimEnd(_)
trimEnd(str) ==
    IF str # <<>> /\ str[Len(str)] = " " THEN trimEnd(SubSeq(str, 1, Len(str) - 1)) ELSE str
trim(str) == trimEnd(trimStart(str))

\* the values of the name field
TypedNames == UNION {[1..n -> Chars] : n \in 0..MaxNameLen}

idOf(c) == IF c.kind = "item" THEN c.id ELSE NoId
\* categories.some(c => c.name.toLowerCase() === wanted): the list is walked in
\* order; c.name of a bare string is undefined and its toLowerCase() throws
someNamed(list, wanted) ==
    LET hit(i) == list[i].kind = "string" \/ toLowerCase(list[i].name) = wanted
        hits == {i \in 1..Len(list) : hit(i)}
        first == CHOOSE i \in hits : \A j \in hits : i <= j
    IN  IF hits = {} THEN [threw |-> FALSE, value |-> FALSE]
        ELSE IF list[first].kind = "string" THEN [threw |-> TRUE, value |-> FALSE]
        ELSE [threw |-> FALSE, value |-> TRUE]

\* the duplicate test comparing the names as they are typed
isDuplicateExact(list, newCategoryName) ==
    LET hits == {i \in 1..Len(list) :
                    list[i].kind = "string" \/ list[i].name = trim(newCategoryName)}
        first == CHOOSE i \in hits : \A j \in hits : i <= j
    IN  IF hits = {} THEN [threw |-> FALSE, value |-> FALSE]
        ELSE IF list[first].kind = "string" THEN [threw |-> TRUE, value |-> FALSE]
        ELSE [threw |-> FALSE, value |-> TRUE]

isDuplicate(list, newCategoryName) ==
    someNamed(list, toLowerCase(trim(newCategoryName)))

\* what handleAddCategory does to the list: nothing for a blank name, for a
\* duplicate (the alert) and when the duplicate test throws
addCategory(list, newCategoryName, selectedIcon, id) ==
    LET dup == isDuplicate(list, newCategoryName)
    IN  IF trim(newCategoryName) = <<>> THEN [list |-> list, outcome |-> "AddCategoryEmpty"]
        ELSE IF dup.threw THEN [list |-> list, outcome |-> "AddCategoryRaised"]
        ELSE IF dup.value THEN [list |-> list, outcome |-> "AddCategoryExists"]
        ELSE [list |-> Append(list, categoryItem(id, trim(newCategoryName), selectedIcon)),
              outcome |-> "AddCategory"]

handleAddCategory(newCategoryName, selectedIcon) ==
    /\ uiEnabled
    /\ LET r == addCategory(categories, newCategoryName, selectedIcon, nextId)
       IN  /\ categories' = r.list
           /\ nextId' = IF r.outcome = "AddCategory" THEN nextId + 1 ELSE nextId
           /\ last' = r.outcome
    /\ ops' = ops + 1
    /\ UNCHANGED <<supabase, authUser, user, sessions, deletedSessions, editingSession,
                   selectedDate, localStorage, remote, inflight, clock, failedSaves, calls,
                   range, download>>

\* the remove button of the category at position i
handleRemoveCategory(i) ==
    /\ uiEnabled
    /\ i \in 1..Len(categories)
    /\ categories' = filter(categories, LAMBDA c : idOf(c) # idOf(categories[i]))
    /\ last' = "RemoveCategory"
    /\ ops' = ops + 1
    /\ UNCHANGED <<supabase, authUser, user, sessions, deletedSessions, editingSession,
                   selectedDate, localStorage, remote, inflight, clock, nextId, failedSaves,
                   calls, range, download>>

\* the owner is signed in; nothing is stored under CATEGORIES_KEY, or the empty
\* list, or one category added earlier
InitCategories ==
    /\ supabase = TRUE
    /\ authUser = Owner
    /\ user = Owner
    /\ sessions = <<>>
    /\ deletedSessions = <<>>
    /\ editingSession = <<>>
    /\ selectedDate = Today
    /\ localStorage = removed
    /\ remote = {}
    /\ inflight = EmptyBag
    /\ clock = ClockStart
    /\ ops = 0
    /\ failedSaves = {}
    /\ calls = <<>>
    /\ range = "day"
    /\ download = <<>>
    /\ \/ categories = DEFAULT_CATEGORIES /\ nextId = 1
       \/ categories = <<>> /\ nextId = 1
       \/ categories = <<categoryItem(1, <<"a">>, "Activity")>> /\ nextId = 2
    /\ last = "Init"

NextCategories ==
    \/ \E name \in TypedNames, icon \in Icons :
          ops < MaxCategoryOps /\ handleAddCategory(name, icon)
    \/ \E i \in 1..Len(categories) : ops < MaxCategoryOps /\ handleRemoveCategory(i)

SpecCategories == InitCategories /\ [][NextCategories]_vars

\* the names of the list that are names
namesOf(list) == {i \in 1..Len(list) : list[i].kind = "item"}
\* equal ignoring case
equalIgnoringCase(a, b) == toLowerCase(a) = toLowerCase(b)

\* C22: whatever is added and removed, no two categories have names that are
\* equal ignoring case, and an add of a name that, trimmed, equals the name of a
\* category ignoring case leaves the categories as they are.
C22_NamesUniqueIgnoringCase ==
    /\ \A i, j \in namesOf(categories) :
          equalIgnoringCase(categories[i].name, categories[j].name) => i = j
    /\ \A name \in TypedNames, icon \in Icons :
          (\E i \in namesOf(categories) : equalIgnoringCase(trim(name), categories[i].name))
          => addCategory(categories, name, icon, nextId).list = categories
\* a name that differs from a category's name in case and blanks only has been
\* typed and refused
C22_Witness ==
    /\ last = "AddCategoryExists"
    /\ \E i \in namesOf(categories) : categories[i].name = <<"a">>
    /\ Len(categories) >= 2

(***************************************************************************)
(* exportToCSV.                                                            *)
(***************************************************************************)
MaxExportOps == 3     \* operations before and with the exports

\* the names of the tiles: categories the owner has added in the settings
ExportCategories == {<<"a">>, <<"a", "#", "b">>}
\* Date.prototype.toLocaleString: the date and the time of day, to the second
toLocaleString(t) == [date |-> t \div TicksPerDay, time |-> t % TicksPerDay]
\* the empty field
blank == <<>>
headers == <<"Category", "Start Time", "End Time", "Duration (Minutes)", "Status">>

csvRow(s) ==
    LET start == s.start_time
        end == IF s.end_time # Null THEN <<s.end_time>> ELSE <<>>
        duration == IF end # <<>> THEN roundMinutes(toDate(end[1]) - toDate(start)) ELSE 0
    IN  [category |-> s.category,
         start |-> <<toLocaleString(start)>>,
         end |-> IF end # <<>> THEN <<toLocaleString(end[1])>> ELSE blank,
         duration |-> IF end # <<>> THEN <<duration>> ELSE blank,
         status |-> IF s.is_active THEN "Active" ELSE "Completed"]

\* [headers.join(","), ...rows]: the lines of csvContent
csvLines(list) == <<[headers |-> headers]>> \o map(list, csvRow)

\* the characters of a name before its first "#"
beforeHash(name) ==
    SubSeq(name, 1, (CHOOSE i \in 1..Len(name) :
                        name[i] = "#" /\ \A j \in 1..(i - 1) : name[j] # "#") - 1)
\* href = encodeURI(csvContent): encodeURI leaves "#" as it is, and a browser that
\* takes the "#" for the start of the fragment saves the data before it only
savedWithoutFragment(lines) ==
    LET cut == {i \in 2..Len(lines) : "#" \in Range(lines[i].category)}
        k == CHOOSE i \in cut : \A j \in cut : i <= j
    IN  IF cut = {} THEN lines
        ELSE SubSeq(lines, 1, k - 1) \o <<[cutAfter |-> beforeHash(lines[k].category)]>>

\* the export button of the settings
exportToCSV ==
    /\ uiEnabled
    /\ download' \in {csvLines(sessions), savedWithoutFragment(csvLines(sessions))}
    /\ last' = "Export"
    /\ ops' = ops + 1
    /\ UNCHANGED <<supabase, authUser, user, sessions, deletedSessions, editingSession,
                   selectedDate, localStorage, remote, inflight, clock, nextId, failedSaves,
                   calls, range, categories>>

\* Start, Stop and Edit on the tiles of the categories, and the export
NextExport ==
    \/ \E c \in ExportCategories : ops < MaxExportOps /\ handleStartSession(c)
    \/ \E id \in Ids : ops < MaxExportOps /\ handleStopSession(id)
    \/ \E i \in 1..Len(sessions) : openEditModal(i)
    \/ closeEditModal
    \/ \E startTime \in startFieldValues, endTime \in endFieldValues :
          ops < MaxExportOps /\ handleSave(startTime, endTime)
    \/ ops < MaxExportOps /\ exportToCSV

SpecExport == InitSignedIn /\ [][NextExport]_vars

\* line i + 1 of the file is the row of the session at position i
isRowOf(line, s) ==
    /\ DOMAIN line = {"category", "start", "end", "duration", "status"}
    /\ line.status = (IF s.is_active THEN "Active" ELSE "Completed")
    /\ line.duration = blank <=> s.is_active
    /\ line.end = blank <=> s.is_active
    /\ ~s.is_active =>
          /\ 2 * DateUnitsPerMinute * line.duration[1]
                <= 2 * (toDate(s.end_time) - toDate(s.start_time)) + DateUnitsPerMinute
          /\ 2 * DateUnitsPerMinute * line.duration[1]
                > 2 * (toDate(s.end_time) - toDate(s.start_time)) - DateUnitsPerMinute

\* C23: the exported file has one row for every session; the row says Active
\* exactly when the session is active, its end and duration are blank exactly
\* then, and the duration of a completed session is end_time - start_time
\* rounded to minutes.
C23_ExportRows ==
    last = "Export" =>
        /\ Len(download) = Len(sessions) + 1
        /\ \A i \in 1..Len(sessions) : isRowOf(download[i + 1], sessions[i])

\* C24: when the delete of a Delete(id) has come back from the backend without an
\* error, the table holds no row with that id any more.
C24_RemoteDeleteEffective ==
    [][\A t \in Tasks :
          deleteDone(t, TRUE) => \A row \in remote' : row.id # t.id]_vars

\* Start, Stop and Edit with the backend answering and the loadData of the auth
\* events in the background
NextReload ==
    \/ BagCardinality(inflight) < MaxInflight /\ authSession
    \/ \E c \in Categories :
          ops < MaxSyncOps /\ BagCardinality(inflight) < MaxInflight /\ handleStartSession(c)
    \/ \E id \in Ids :
          ops < MaxSyncOps /\ BagCardinality(inflight) < MaxInflight /\ handleStopSession(id)
    \/ \E i \in 1..Len(sessions) : openEditModal(i)
    \/ closeEditModal
    \/ \E startTime \in startFieldValues, endTime \in endFieldValues :
          ops < MaxSyncOps /\ BagCardinality(inflight) < MaxInflight /\ handleSave(startTime, endTime)
    \/ \E t \in Tasks, ok \in BOOLEAN : upsertDone(t, ok)
    \/ \E t \in Tasks, ok \in BOOLEAN : selectServed(t, ok)
    \/ \E t \in Tasks : loadDataResume(t)

SpecReload == Init /\ [][NextReload]_vars

\* C25: when a loadData that runs in the background completes, every session that
\* Start, Stop or Edit has put into the collection is still in the collection with
\* the same content, and so is every one of them that the local cache holds.
C25_ReloadKeepsLocalChanges ==
    [][\A t \in Tasks :
          loadDataResume(t) =>
              \A s \in Range(sessions) :
                  /\ s \in Range(sessions')
                  /\ s \in Range(cached) => s \in Range(cachedOf(localStorage'))]_vars

\* Start, Stop, Delete and Undo-delete, without the edit modal
NextDeleteUndo ==
    \/ \E c \in Categories : ops < MaxOps /\ handleStartSession(c)
    \/ \E id \in Ids : ops < MaxOps /\ handleStopSession(id)
    \/ \E id \in Ids : ops < MaxOps /\ handleDeleteSession(id)
    \/ ops < MaxOps /\ handleUndoDelete

SpecDeleteUndo == InitSignedIn /\ [][NextDeleteUndo]_vars

\* C26: after every operation of a sequence of Start, Stop, Delete and Undo-delete,
\* no two sessions of the collection are active.
C26_DeleteUndoKeepSingleActive ==
    \A i, j \in 1..Len(sessions) :
        sessions[i].is_active /\ sessions[j].is_active => i = j

\* C27: after every operation of a sequence of Start, Stop, Edit, Delete,
\* Undo-delete and background reloads, no two entries of the collection carry the
\* same id.
C27_IdsUnique ==
    \A i, j \in 1..Len(sessions) : i # j => sessions[i].id # sessions[j].id

MaxQuiesceOps == 3     \* operations before the writes are left to complete

\* every handler of the tracker with the backend completing the writes, and no
\* loadData in the background
NextQuiesce ==
    \/ \E d \in Dates : setSelectedDate(d)
    \/ \E c \in Categories : ops < MaxQuiesceOps /\ handleStartSession(c)
    \/ \E id \in Ids : ops < MaxQuiesceOps /\ handleStopSession(id)
    \/ \E i \in 1..Len(sessions) : openEditModal(i)
    \/ closeEditModal
    \/ \E startTime \in startFieldValues, endTime \in endFieldValues :
          ops < MaxQuiesceOps /\ handleSave(startTime, endTime)
    \/ \E id \in Ids : ops < MaxQuiesceOps /\ handleDeleteSession(id)
    \/ ops < MaxQuiesceOps /\ handleUndoDelete
    \/ ops < MaxQuiesceOps /\ handleClearData
    \/ \E t \in Tasks, ok \in BOOLEAN : upsertDone(t, ok)
    \/ \E t \in Tasks, ok \in BOOLEAN : deleteDone(t, ok)

SpecQuiesce == InitSignedIn /\ [][NextQuiesce]_vars

\* no save and no delete is pending
quiescent == inflight = EmptyBag

\* C28: without a background reload, once every pending save and delete has
\* completed the local cache holds exactly the sessions of the collection, each
\* once; a session that was deleted or cleared is in neither.
C28_CacheAgreesAtQuiescence ==
    quiescent =>
        /\ Range(cached) = Range(sessions)
        /\ Len(cached) = Len(sessions)

\* a session was saved to the table and then deleted, another is still there
C28_Witness ==
    /\ quiescent
    /\ last = "Delete"
    /\ deletedSessions # <<>>
    /\ sessions # <<>>
    /\ \E row \in remote : row.id = deletedSessions[Len(deletedSessions)].id
    /\ \A s \in Range(cached) : s.id # deletedSessions[Len(deletedSessions)].id

\* the selected date lies before today
pastDateSelected == selectedDate < clock \div TicksPerDay
\* the edit modal shows a session that is not in the collection
draftOpen == editingSession # <<>> /\ ~hasId(sessions, editingSession[1].id)
stoppedIn(list, id) ==
    /\ Cardinality(entriesOf(list, id)) = 1
    /\ \A i \in entriesOf(list, id) : ~list[i].is_active /\ list[i].end_time # Null

\* C29: a Start while a date before today is selected leaves the collection, the
\* cache, the table and the pending writes as they are and opens a stopped draft
\* from 12:00 to 12:30 of the selected date; while the draft is open the collection
\* and the cache change only by saving it through Edit, which adds it as a stopped
\* session.
C29_PastDateStartOpensDraft ==
    [][/\ (pastDateSelected /\ (handlerStep("Start") \/ handlerStep("StartDraft"))) =>
              /\ UNCHANGED <<sessions, localStorage, remote, inflight>>
              /\ Len(editingSession') = 1
              /\ LET draft == editingSession'[1]
                 IN  /\ ~hasId(sessions, draft.id)
                     /\ draft.start_time = startOfDay(selectedDate) + 12 * TicksPerHour
                     /\ draft.end_time = draft.start_time + 30 * TicksPerMinute
                     /\ ~draft.is_active
       /\ draftOpen =>
              /\ (sessions' # sessions \/ localStorage' # localStorage) => handlerStep("Edit")
              /\ handlerStep("Edit") =>
                     /\ stoppedIn(sessions', editingSession[1].id)
                     /\ stoppedIn(cachedOf(localStorage'), editingSession[1].id)]_vars

\* C30: once all data has been cleared, the undo stack is empty right after the
\* clear, and a session appears in the collection or the cache only through Start
\* or through saving a new draft.
C30_ClearIsFinal ==
    [][/\ handlerStep("Clear") => deletedSessions' = <<>>
       /\ (last = "Clear" /\ sessions = <<>> /\ cached = <<>>
           /\ (sessions' # <<>> \/ cachedOf(localStorage') # <<>>))
          => handlerStep("Start") \/ (draftOpen /\ handlerStep("Edit"))]_vars

====
